---- MODULE Spec2Model ----
(***************************************************************************)
(* Model of src/github_comments/pr_comments.py: the paginated fetch of a   *)
(* pull request's review-thread comments (get_pr_comments), the flatten    *)
(* and filter step (_parse_response), the presenter (display_comments)     *)
(* and the entry point (main).                                             *)
(*                                                                         *)
(* JSON null and Python None are the string Null.  A JSON object that may  *)
(* be null, or whose key may be missing, is a record with a "kind" field.  *)
(* The GitHub API is the environment: it answers each request with a       *)
(* well-formed page, a malformed document, or a transport failure.         *)
(* A well-formed answer holds every key the query asks for, so a comment's *)
(* author is an object or null; originalCommit is an object, null, or (the *)
(* case comment.get's default is written for) missing.  The pull request's *)
(* top-level comments collection is fetched and never read, and is left    *)
(* out.                                                                    *)
(***************************************************************************)
EXTENDS Integers, Sequences, FiniteSets, TLC

VARIABLES
    pc,             \* position of the process
    token,          \* os.environ.get("GH_TOKEN")
    args,           \* parse_arguments(): owner, repo, pr, filter
    review_cursor,  \* get_pr_comments: review_cursor
    all_comments,   \* get_pr_comments: all_comments
    pr_data,        \* the reviewThreads object of the page being handled
    page_comments,  \* result of _parse_response on pr_data
    calls,          \* the variables of every requests.post issued, in order
    responses,      \* every page execute_query returned, in order
    outstanding,    \* number of HTTP requests in flight
    displayed,      \* what display_comments printed
    printed         \* which except clause of main printed an error

vars == << pc, token, args, review_cursor, all_comments, pr_data,
           page_comments, calls, responses, outstanding, displayed, printed >>

-----------------------------------------------------------------------------
(* Bounds *)

MaxPages == 2
MaxThreads == 2
MaxComments == 2
ParseMaxThreads == 2
ParseMaxComments == 2

-----------------------------------------------------------------------------
(* Values *)

Null == "None"

Truthy(s) == s # Null /\ s # ""

Filters == {"all", "unresolved"}

GoodDate == "2024-05-01T10:00:00Z"
BadDate == "yesterday"

AuthorNull == [kind |-> "null", login |-> Null]
AuthorObj(l) == [kind |-> "object", login |-> l]

CommitMissing == [kind |-> "missing", oid |-> Null, message |-> Null]
CommitNull == [kind |-> "null", oid |-> Null, message |-> Null]
CommitObj(o, m) == [kind |-> "object", oid |-> o, message |-> m]

Oids == {Null, "abc1234567"}
Messages == {Null, "fix bug"}

\* every shape of a review comment's author and originalCommit
ParseNodes ==
    [ author : {AuthorNull, AuthorObj("alice")},
      body : {"body"},
      createdAt : {GoodDate},
      url : {"u1"},
      originalCommit : {CommitMissing, CommitNull}
                       \cup {CommitObj(o, m) : o \in Oids, m \in Messages} ]

\* the comments the API serves during a run of main
MainNodes ==
    { [author |-> AuthorObj("alice"), body |-> "body", createdAt |-> GoodDate,
       url |-> "u1", originalCommit |-> CommitObj("abc1234567", "fix bug")],
      [author |-> AuthorObj("bob"), body |-> "body", createdAt |-> GoodDate,
       url |-> "u2", originalCommit |-> CommitNull],
      [author |-> AuthorNull, body |-> "body", createdAt |-> BadDate,
       url |-> "u3", originalCommit |-> CommitMissing] }

RECURSIVE Total(_, _)
\* counts[1] + ... + counts[i]
Total(counts, i) == IF i = 0 THEN 0 ELSE counts[i] + Total(counts, i - 1)

RECURSIVE ThreadList(_, _, _, _)
\* the first i threads of a page: thread j is resolved iff flags[j] and holds
\* the next counts[j] comments of content
ThreadList(flags, counts, content, i) ==
    IF i = 0 THEN << >>
    ELSE Append(ThreadList(flags, counts, content, i - 1),
                [isResolved |-> flags[i],
                 comments |-> [nodes |-> SubSeq(content,
                                                Total(counts, i - 1) + 1,
                                                Total(counts, i))]])

Cursors == {Null, "", "c1", "c2"}

PageInfos ==
    [hasNextPage : {TRUE}, endCursor : Cursors]
    \cup [hasNextPage : {FALSE}, endCursor : {"c1"}]

NoPage == [nodes |-> << >>, pageInfo |-> [hasNextPage |-> FALSE, endCursor |-> Null]]

RECURSIVE SumLen(_)
SumLen(threads) ==
    IF threads = << >> THEN 0
    ELSE Len(Head(threads).comments.nodes) + SumLen(Tail(threads))

RECURSIVE ThreadsIn(_)
ThreadsIn(pages) ==
    IF pages = << >> THEN 0 ELSE Len(Head(pages).nodes) + ThreadsIn(Tail(pages))

RECURSIVE CommentsIn(_)
CommentsIn(pages) ==
    IF pages = << >> THEN 0 ELSE SumLen(Head(pages).nodes) + CommentsIn(Tail(pages))

-----------------------------------------------------------------------------
(* Comment and _parse_response *)

\* a faulty CommitGet: both commit fields read the oid
CommitGetOid(commit_data, key) ==
    IF commit_data.kind = "object" THEN commit_data.oid ELSE Null

\* commit_data.get(key) on the dict that comment.get("originalCommit", {}) gave
CommitGet(commit_data, key) ==
    IF commit_data.kind = "object"
    THEN (IF key = "oid" THEN commit_data.oid ELSE commit_data.message)
    ELSE Null

\* a faulty AuthorOf: the login is read without the fallback
AuthorOfNoFallback(author) == author.login

\* comment["author"]["login"] if comment["author"] else "unknown"
AuthorOf(author) == IF author.kind = "object" THEN author.login ELSE "unknown"

\* Comment(author=..., body=..., created_at=..., url=..., commit_id=..., commit_message=...)
Comment(comment) ==
    [ author |-> AuthorOf(comment.author),
      body |-> comment.body,
      created_at |-> comment.createdAt,
      url |-> comment.url,
      commit_id |-> CommitGet(comment.originalCommit, "oid"),
      commit_message |-> CommitGet(comment.originalCommit, "message") ]

\* None.get(...) raises AttributeError: originalCommit present with value null
Raises(comment) == comment.originalCommit.kind = "null"

\* a faulty Skipped: resolved threads are skipped whatever the filter
SkippedIgnoringFilter(thread, filter_type) == thread.isResolved

\* the thread is skipped by the filter
Skipped(thread, filter_type) == filter_type = "unresolved" /\ thread.isResolved

RECURSIVE ParseComments(_, _)
\* the inner loop of _parse_response over one thread's comments
ParseComments(nodes, acc) ==
    IF nodes = << >> THEN [exc |-> Null, comments |-> acc]
    ELSE IF Raises(Head(nodes)) THEN [exc |-> "AttributeError", comments |-> acc]
    ELSE ParseComments(Tail(nodes), Append(acc, Comment(Head(nodes))))

RECURSIVE ParseThreads(_, _, _)
\* the outer loop of _parse_response over the page's threads
ParseThreads(threads, filter_type, acc) ==
    IF threads = << >> THEN [exc |-> Null, comments |-> acc]
    ELSE IF Skipped(Head(threads), filter_type)
         THEN ParseThreads(Tail(threads), filter_type, acc)
         ELSE LET r == ParseComments(Head(threads).comments.nodes, acc)
              IN  IF r.exc # Null THEN r
                  ELSE ParseThreads(Tail(threads), filter_type, r.comments)

parse_response(data, filter_type) == ParseThreads(data.nodes, filter_type, << >>)

NotParsed == [exc |-> Null, comments |-> << >>]

-----------------------------------------------------------------------------
(* get_pr_comments *)

\* a faulty Variables: every request asks for the first page
VariablesFirstPage(a, cursor) ==
    [owner |-> a.owner, name |-> a.repo, pull_number |-> a.pr,
     review_after |-> Null]

Variables(a, cursor) ==
    [owner |-> a.owner, name |-> a.repo, pull_number |-> a.pr,
     review_after |-> cursor]

\* a faulty Extend: all_comments = page_comments instead of extend
ExtendReplacing(acc, page) == page

Extend(acc, page) == acc \o page

NextCursor(info) == IF info.hasNextPage THEN info.endCursor ELSE Null

LoopBreaks(cursor) == ~Truthy(cursor)

-----------------------------------------------------------------------------
(* main *)

\* a faulty TokenUnset: "if github_token is None"
TokenUnsetNoneOnly(t) == t = Null

TokenUnset(t) == ~Truthy(t)

\* the messages of the two except clauses
RequestError == "Error making request to GitHub"
GenericError == "An error occurred"

NotDisplayed == [done |-> FALSE, rows |-> << >>]

Args ==
    [owner : {"zeronetworks"}, repo : {"zero-core"}, pr : {5875}, filter : Filters]

Init ==
    /\ pc = "main"
    /\ token \in {Null, "", "ghp_token"}
    /\ args \in Args
    /\ review_cursor = Null
    /\ all_comments = << >>
    /\ pr_data = NoPage
    /\ page_comments = NotParsed
    /\ calls = << >>
    /\ responses = << >>
    /\ outstanding = 0
    /\ displayed = NotDisplayed
    /\ printed = Null

\* main up to the try block: the token check
CheckToken ==
    /\ pc = "main"
    /\ pc' = IF TokenUnset(token) THEN "traceback" ELSE "loop"
    /\ UNCHANGED << token, args, review_cursor, all_comments, pr_data,
                    page_comments, calls, responses, outstanding, displayed,
                    printed >>

\* the head of the while loop and requests.post in execute_query
SendRequest ==
    /\ pc = "loop"
    /\ calls' = Append(calls, Variables(args, review_cursor))
    /\ outstanding' = outstanding + 1
    /\ pc' = "waiting"
    /\ UNCHANGED << token, args, review_cursor, all_comments, pr_data,
                    page_comments, responses, displayed, printed >>

\* a faulty TransportError: a failed request is sent again
TransportErrorRetried ==
    /\ pc = "waiting"
    /\ outstanding' = outstanding - 1
    /\ pc' = "loop"
    /\ UNCHANGED << token, args, review_cursor, all_comments, pr_data,
                    page_comments, calls, responses, displayed, printed >>

\* requests.post or raise_for_status raises a RequestException
TransportError ==
    /\ pc = "waiting"
    /\ outstanding' = outstanding - 1
    /\ printed' = RequestError
    /\ pc' = "exit0"
    /\ UNCHANGED << token, args, review_cursor, all_comments, pr_data,
                    page_comments, calls, responses, displayed >>

\* the response lacks data/repository/pullRequest/reviewThreads: KeyError or TypeError
MalformedResponse ==
    /\ pc = "waiting"
    /\ outstanding' = outstanding - 1
    /\ printed' = GenericError
    /\ pc' = "exit0"
    /\ UNCHANGED << token, args, review_cursor, all_comments, pr_data,
                    page_comments, calls, responses, displayed >>

\* execute_query returns a page: the rest of the loop body.  The API picks the
\* page: t threads, thread j resolved iff flags[j] and holding counts[j] comments.
ReceivePage ==
    /\ pc = "waiting"
    /\ \E t \in 0..(MaxThreads - ThreadsIn(responses)), info \in PageInfos :
       \E flags \in [1..t -> BOOLEAN],
          counts \in [1..t -> 0..(MaxComments - CommentsIn(responses))] :
         /\ Total(counts, t) <= MaxComments - CommentsIn(responses)
         /\ \E content \in [1..Total(counts, t) -> MainNodes] :
              LET page == [nodes |-> ThreadList(flags, counts, content, t),
                           pageInfo |-> info]
                  r == parse_response(page, args.filter)
                  cursor == NextCursor(info)
              IN  /\ LoopBreaks(cursor) \/ Len(calls) < MaxPages
                  /\ outstanding' = outstanding - 1
                  /\ responses' = Append(responses, page)
                  /\ pr_data' = page
                  /\ IF r.exc # Null
                     THEN /\ printed' = GenericError
                          /\ pc' = "exit0"
                          /\ UNCHANGED << page_comments, all_comments,
                                          review_cursor >>
                     ELSE /\ page_comments' = r
                          /\ all_comments' = Extend(all_comments, r.comments)
                          /\ review_cursor' = cursor
                          /\ pc' = IF LoopBreaks(cursor) THEN "display" ELSE "loop"
                          /\ UNCHANGED printed
    /\ UNCHANGED << token, args, calls, displayed >>

\* Comment.formatted_date: datetime.fromisoformat raises ValueError
DateRaises(c) == c.created_at # GoodDate

DisplayRaises(comments) == \E i \in 1..Len(comments) : DateRaises(comments[i])

\* a faulty Rendered: each row is printed as soon as it is built
RenderedRowByRow(comments) ==
    IF DisplayRaises(comments)
    THEN [done |-> TRUE,
          rows |-> SubSeq(comments, 1,
                          (CHOOSE i \in 1..Len(comments) :
                              /\ DateRaises(comments[i])
                              /\ \A j \in 1..(i - 1) : ~DateRaises(comments[j])) - 1)]
    ELSE [done |-> TRUE, rows |-> comments]

\* what display_comments prints: the rows go to a Table that is printed once,
\* after the loop over the comments
Rendered(comments) ==
    IF DisplayRaises(comments) THEN NotDisplayed
    ELSE [done |-> TRUE, rows |-> comments]

\* display_comments(comments), and the except clause if it raises
DisplayComments ==
    /\ pc = "display"
    /\ displayed' = Rendered(all_comments)
    /\ printed' = IF DisplayRaises(all_comments) THEN GenericError ELSE printed
    /\ pc' = "exit0"
    /\ UNCHANGED << token, args, review_cursor, all_comments, pr_data,
                    page_comments, calls, responses, outstanding >>

Next ==
    \/ CheckToken
    \/ SendRequest
    \/ TransportError
    \/ MalformedResponse
    \/ ReceivePage
    \/ DisplayComments

Spec == Init /\ [][Next]_vars

-----------------------------------------------------------------------------
(* _parse_response alone, on every page within the bounds *)

InitParse ==
    /\ pc = "parse"
    /\ token = "ghp_token"
    /\ args \in Args
    /\ review_cursor = Null
    /\ all_comments = << >>
    /\ \E t \in 0..ParseMaxThreads :
       \E flags \in [1..t -> BOOLEAN], counts \in [1..t -> 0..ParseMaxComments] :
         /\ Total(counts, t) <= ParseMaxComments
         /\ \E content \in [1..Total(counts, t) -> ParseNodes] :
              pr_data = [nodes |-> ThreadList(flags, counts, content, t),
                         pageInfo |-> NoPage.pageInfo]
    /\ page_comments = NotParsed
    /\ calls = << >>
    /\ responses = << >>
    /\ outstanding = 0
    /\ displayed = NotDisplayed
    /\ printed = Null

\* page_comments = self._parse_response(pr_data, filter_type)
ParseResponse ==
    /\ pc = "parse"
    /\ page_comments' = parse_response(pr_data, args.filter)
    /\ pc' = IF page_comments'.exc # Null THEN "raised" ELSE "parsed"
    /\ UNCHANGED << token, args, review_cursor, all_comments, pr_data, calls,
                    responses, outstanding, displayed, printed >>

NextParse == ParseResponse

SpecParse == InitParse /\ [][NextParse]_vars

-----------------------------------------------------------------------------
(* What the claims speak of *)

\* the threads the filter keeps, as the specification words it
Kept(threads, filter_type) ==
    SelectSeq(threads, LAMBDA th : filter_type = "all" \/ ~th.isResolved)

RECURSIVE Flatten(_)
\* the comments of the threads, thread by thread
Flatten(threads) ==
    IF threads = << >> THEN << >>
    ELSE Head(threads).comments.nodes \o Flatten(Tail(threads))

IncludedNodes(data, filter_type) == Flatten(Kept(data.nodes, filter_type))

RECURSIVE AllIncluded(_, _)
\* the included comments of the pages, page by page
AllIncluded(pages, filter_type) ==
    IF pages = << >> THEN << >>
    ELSE IncludedNodes(Head(pages), filter_type)
         \o AllIncluded(Tail(pages), filter_type)

RECURSIVE Comments(_)
Comments(nodes) ==
    IF nodes = << >> THEN << >>
    ELSE <<Comment(Head(nodes))>> \o Comments(Tail(nodes))

Oid(node) ==
    IF node.originalCommit.kind = "object" THEN node.originalCommit.oid ELSE Null

Message(node) ==
    IF node.originalCommit.kind = "object" THEN node.originalCommit.message ELSE Null

Paired(a, b) == (a = Null) <=> (b = Null)

\* requests that ended in a failure of execute_query or of reading its result
Failed == Len(calls) - Len(responses) - outstanding

-----------------------------------------------------------------------------
(* Claims about _parse_response, under SpecParse *)

\* C1: the output of _parse_response is, in order, the comments of every
\* thread when the filter is 'all' and the comments of exactly the threads
\* with isResolved = false when the filter is 'unresolved'.
C1_FilterCorrectness ==
    pc = "parsed" =>
        /\ page_comments.comments = Comments(IncludedNodes(pr_data, args.filter))
        /\ args.filter = "all" =>
             Len(page_comments.comments) = SumLen(pr_data.nodes)
        /\ args.filter = "unresolved" =>
             Len(page_comments.comments)
               = SumLen(SelectSeq(pr_data.nodes, LAMBDA th : ~th.isResolved))

\* C1 witness: with filter 'unresolved', a page holding a resolved thread with
\* a comment and an unresolved thread with a comment was parsed.
C1_Witness ==
    /\ pc = "parsed"
    /\ args.filter = "unresolved"
    /\ \E i, j \in 1..Len(pr_data.nodes) :
         /\ pr_data.nodes[i].isResolved
         /\ ~pr_data.nodes[j].isResolved
         /\ pr_data.nodes[i].comments.nodes # << >>
         /\ pr_data.nodes[j].comments.nodes # << >>
    /\ Len(page_comments.comments) = 1

\* C4 as stated: every Comment produced has commit_id and commit_message both
\* present or both absent.
C4_CommitPairing ==
    \A i \in 1..Len(page_comments.comments) :
        Paired(page_comments.comments[i].commit_id,
               page_comments.comments[i].commit_message)

\* C4 as amended: every Comment produced has commit_id equal to the oid and
\* commit_message equal to the message of its originalCommit (absent when
\* that field is null or the object is missing), so the two are paired
\* exactly when the originalCommit's oid and message are.
C4_CommitFieldsFollowSource ==
    pc = "parsed" =>
        LET nodes == IncludedNodes(pr_data, args.filter)
            out == page_comments.comments
        IN  /\ Len(out) = Len(nodes)
            /\ \A i \in 1..Len(out) :
                 /\ out[i].commit_id = Oid(nodes[i])
                 /\ out[i].commit_message = Message(nodes[i])
                 /\ Paired(out[i].commit_id, out[i].commit_message)
                      <=> Paired(Oid(nodes[i]), Message(nodes[i]))

\* C4 witness: a Comment was produced with a commit_id and no commit_message.
C4_Witness ==
    /\ pc = "parsed"
    /\ \E i \in 1..Len(page_comments.comments) :
         /\ page_comments.comments[i].commit_id # Null
         /\ page_comments.comments[i].commit_message = Null

\* C8: _parse_response does not fail, and every included comment yields a
\* Comment whose commit fields come from its originalCommit when the object
\* is present and are both absent when it is missing or null.
C8_CommitFieldsOrAbsent ==
    pc # "parse" =>
        LET nodes == IncludedNodes(pr_data, args.filter)
            out == page_comments.comments
        IN  /\ page_comments.exc = Null
            /\ Len(out) = Len(nodes)
            /\ \A i \in 1..Len(nodes) :
                 IF nodes[i].originalCommit.kind = "object"
                 THEN /\ out[i].commit_id = nodes[i].originalCommit.oid
                      /\ out[i].commit_message = nodes[i].originalCommit.message
                 ELSE /\ out[i].commit_id = Null
                      /\ out[i].commit_message = Null

-----------------------------------------------------------------------------
(* Claims about get_pr_comments and main, under Spec *)

\* C2: the sequence get_pr_comments returns is the included comments of the
\* fetched pages in page, then thread, then comment order, with nothing
\* reordered, dropped or deduplicated.
C2_OrderPreserved ==
    pc = "display" =>
        all_comments = Comments(AllIncluded(responses, args.filter))

\* C2 witness: get_pr_comments returned after two pages that each served the
\* same comment, and the result holds it twice.
C2_Witness ==
    /\ pc = "display"
    /\ Len(responses) = 2
    /\ SumLen(responses[1].nodes) = 1
    /\ SumLen(responses[2].nodes) = 1
    /\ Len(all_comments) = 2
    /\ all_comments[1] = all_comments[2]

\* C3: when get_pr_comments returns, the last page it fetched reported
\* hasNextPage = false: it stops after page N only if page N is the last.
C3_ExactlyNPages ==
    pc = "display" =>
        /\ Len(calls) = Len(responses)
        /\ ~responses[Len(responses)].pageInfo.hasNextPage
        /\ \A k \in 1..(Len(responses) - 1) : responses[k].pageInfo.hasNextPage

\* C5: with GH_TOKEN unset or empty, main raises before any request: no
\* request is issued, nothing is displayed and no except clause prints.
C5_NoRequestWithoutToken ==
    (token = Null \/ token = "") =>
        /\ calls = << >>
        /\ outstanding = 0
        /\ printed = Null
        /\ ~displayed.done
        /\ pc \in {"main", "traceback"}

\* C5 witness: main ended with the uncaught error, GH_TOKEN being empty.
C5_Witness == pc = "traceback" /\ token = ""

\* C6: with a token, a run of main ends either with the full comment
\* sequence of the fetched pages displayed and no error printed, or with
\* nothing displayed and an error printed; the two never come together.
C6_AllOrNothing ==
    /\ ~(displayed.done /\ printed # Null)
    /\ displayed.done =>
         displayed.rows = Comments(AllIncluded(responses, args.filter))
    /\ pc = "exit0" => (displayed.done \/ printed # Null)

\* C6 witness: the run failed on its second page, after the first page had
\* put comments in all_comments, and nothing was displayed.
C6_Witness ==
    /\ pc = "exit0"
    /\ printed # Null
    /\ Len(calls) = 2
    /\ all_comments # << >>
    /\ ~displayed.done

\* C7: once a request has failed, the run has issued no request after it, the
\* error has been printed by main and the process has ended normally.
C7_NoRetry ==
    /\ Failed \in {0, 1}
    /\ Failed = 1 =>
         /\ pc = "exit0"
         /\ printed \in {RequestError, GenericError}
         /\ outstanding = 0
         /\ ~displayed.done
    /\ printed = RequestError => Failed = 1

\* C7 witness: the second request failed in the HTTP layer, and two requests
\* were issued in all.
C7_Witness ==
    /\ pc = "exit0"
    /\ printed = RequestError
    /\ Len(calls) = 2
    /\ Len(responses) = 1

\* C10: the first request carries review_after = None, every later one the
\* endCursor of the response before it, which reported hasNextPage = true;
\* owner, name and pull_number never change; at most one request is
\* outstanding.
C10_CursorChain ==
    /\ outstanding \in {0, 1}
    /\ Len(calls) - Len(responses) \in {0, 1}
    /\ \A i \in 1..Len(calls) :
         /\ calls[i].owner = args.owner
         /\ calls[i].name = args.repo
         /\ calls[i].pull_number = args.pr
         /\ i = 1 => calls[i].review_after = Null
         /\ i > 1 =>
              /\ responses[i - 1].pageInfo.hasNextPage
              /\ calls[i].review_after = responses[i - 1].pageInfo.endCursor

\* C10 witness: a second request is outstanding and carries the cursor "c2".
C10_Witness ==
    /\ Len(calls) = 2
    /\ outstanding = 1
    /\ calls[2].review_after = "c2"

====
